---- MODULE Spec2Model ----
(***************************************************************************)
(* Attendance / break tracker bot (src/telegram_bot.py).                   *)
(*                                                                         *)
(* State: the two in-memory dicts user_data and user_breaks, the asyncio   *)
(* db_lock, the 'owners' row of kv_storage, the wall clock and the handler *)
(* coroutines that are suspended at an await.                              *)
(*                                                                         *)
(* A handler runs from one await to the next as one step; the await of     *)
(* reply_text is the last thing a handler does, so the reply is sent in    *)
(* the step that decides it.  Time is counted in seconds since 00:00 of    *)
(* day 0 in the fixed zone Asia/Phnom_Penh (no daylight saving, so date    *)
(* arithmetic is linear).                                                  *)
(***************************************************************************)
EXTENDS Integers, Sequences, FiniteSets, TLC

VARIABLES
    now,          \* the wall clock read by get_now()
    user_data,    \* dict: user id -> record
    user_breaks,  \* dict: user id -> [type, start_time]
    tasks,        \* handler coroutines: slot -> what it is suspended at
    db_lock,      \* asyncio.Lock: the slot holding it, 0 when free
    db_waiters,   \* asyncio.Lock: FIFO of the slots waiting for it
    kv_owners,    \* kv_storage row 'owners': the decoded list of owner groups
    reset_day,    \* the last day whose 03:00 job the scheduler has fired
    row,          \* the row lock of kv_storage 'owners' and the open reads
    last          \* the handler step just taken and what it sent

vars == <<now, user_data, user_breaks, tasks, db_lock, db_waiters, kv_owners,
          reset_day, row, last>>

----------------------------------------------------------------------------
(* Bounds of the model *)

NumUsers == 2
MaxInFlight == 2
MaxBreaks == 2

Users == 1..NumUsers
Slots == 1..MaxInFlight

----------------------------------------------------------------------------
(* datetime *)

None == -1

SecondsPerDay == 24 * 60 * 60

At(d, h, m, s) == d * SecondsPerDay + h * 3600 + m * 60 + s

\* datetime.time(h, m, s) as seconds since midnight
time(h, m, s) == h * 3600 + m * 60 + s

\* dt.time()
time_of(dt) == dt % SecondsPerDay

\* dt.hour
hour(dt) == (dt % SecondsPerDay) \div 3600

day(dt) == dt \div SecondsPerDay

\* dt.replace(hour=h, minute=m, second=0, microsecond=0)
replace(dt, h, m) == (dt - (dt % SecondsPerDay)) + h * 3600 + m * 60

\* int(seconds / 60): truncation toward zero
int_minutes(seconds) ==
    IF seconds >= 0 THEN seconds \div 60 ELSE -((-seconds) \div 60)

----------------------------------------------------------------------------
(* Replies sent with update.message.reply_text.  A reply is its fixed text
   and the number of minutes formatted into it (0 when the text has none). *)

Reply(text, minutes) == [text |-> text, minutes |-> minutes]

NoReply == Reply("", 0)
WellDone == Reply("Well done!", 0)
YouAreLate(m) == Reply("You are late {late_minutes} minutes.", m)
YouAreLate9PM(m) == Reply("You are late {late_minutes} minutes (from 9 PM).", m)
NotAllowedCheckOut == Reply("You are not allowed to check out at this time.", 0)
AlreadyOnBreak == Reply("You are already on another break.", 0)
NotTimeToEat == Reply("It's not time to eat yet.", 0)

----------------------------------------------------------------------------
(* Users: update.message.from_user.  The id is the identity; full_name is
   whatever the profile shows when the message is sent; username is the
   Telegram handle, which a user may lack. *)

\* user 1 is seen under two profile names, every other user under one
Names(u) == IF u = 1 THEN {"Ann", "Bea"} ELSE {"Cy"}

NoUsername == <<>>

\* user 1 has the handle Foo, the other users have none
username(u) == IF u = 1 THEN <<"F", "o", "o">> ELSE NoUsername

----------------------------------------------------------------------------
(* dict helpers *)

Put(d, k, v) == [x \in DOMAIN d \cup {k} |-> IF x = k THEN v ELSE d[x]]

\* a pop that leaves the key in the dict
PopKeeps(d, k) == d

Pop(d, k) == [x \in DOMAIN d \ {k} |-> d[x]]

EmptyDict == <<>>

----------------------------------------------------------------------------
(* Attendance registry: user_data *)

NewUserRecord(full_name) ==
    [name |-> full_name, check_in |-> None, check_out |-> None,
     wc_count |-> 0, wc_late |-> 0,
     smoke_count |-> 0, smoke_late |-> 0,
     eat_count |-> 0, eat_late |-> 0]

\* an _ensure_user_data that replaces the entry of a known id
ensure_user_data_resets(ud, u, full_name) ==
    Put(ud, u, NewUserRecord(full_name))

\* _ensure_user_data: create the entry only if the id is not a key yet
ensure_user_data(ud, u, full_name) ==
    IF u \in DOMAIN ud THEN ud ELSE Put(ud, u, NewUserRecord(full_name))

----------------------------------------------------------------------------
(* Lateness policy *)

\* a check_in reply whose first late count starts at 15:05
check_in_reply_from_1505(dt) ==
    IF time(13, 0, 0) <= time_of(dt) /\ time_of(dt) < time(15, 0, 0)
    THEN WellDone
    ELSE IF time(15, 5, 0) < time_of(dt) /\ time_of(dt) < time(21, 0, 0)
    THEN YouAreLate(int_minutes(dt - replace(dt, 15, 5)))
    ELSE IF time(21, 1, 0) < time_of(dt) /\ time_of(dt) < time(21, 59, 0)
    THEN YouAreLate9PM(int_minutes(dt - replace(dt, 21, 0)))
    ELSE NoReply

\* check_in: the reply chosen from the time of day of `dt`
check_in_reply(dt) ==
    IF time(13, 0, 0) <= time_of(dt) /\ time_of(dt) < time(15, 0, 0)
    THEN WellDone
    ELSE IF time(15, 5, 0) < time_of(dt) /\ time_of(dt) < time(21, 0, 0)
    THEN YouAreLate(int_minutes(dt - replace(dt, 15, 0)))
    ELSE IF time(21, 1, 0) < time_of(dt) /\ time_of(dt) < time(21, 59, 0)
    THEN YouAreLate9PM(int_minutes(dt - replace(dt, 21, 0)))
    ELSE NoReply

\* an is_valid_time that compares hours only
is_valid_time_by_hour(dt) ==
    \/ 21 <= hour(dt) /\ hour(dt) <= 23
    \/ 3 <= hour(dt) /\ hour(dt) <= 6

\* check_out: is_valid_time
is_valid_time(dt) ==
    \/ time(21, 0, 0) <= time_of(dt) /\ time_of(dt) <= time(23, 59, 59)
    \/ time(3, 0, 0) <= time_of(dt) /\ time_of(dt) <= time(6, 0, 0)

\* eat: the window test on `now`
in_eat_time(dt) ==
    \/ replace(dt, 17, 0) <= dt /\ dt <= replace(dt, 17, 30)
    \/ replace(dt, 0, 30) <= dt /\ dt <= replace(dt, 1, 0)

\* a lateness that counts the whole break once the ceiling is passed
grace_late_whole_break(start_time, end_time, ceiling) ==
    IF end_time - start_time > ceiling * 60
    THEN int_minutes(end_time - start_time)
    ELSE 0

\* back_from_break, 'wc' and 'smoke': duration_minutes > ceiling is a
\* comparison of the exact quotient, late_minutes is its truncation
grace_late(start_time, end_time, ceiling) ==
    IF end_time - start_time > ceiling * 60
    THEN int_minutes((end_time - start_time) - ceiling * 60)
    ELSE 0

wc_late(start_time, end_time) == grace_late(start_time, end_time, 15)

smoke_late(start_time, end_time) == grace_late(start_time, end_time, 10)

\* back_from_break, 'eat': the deadline picked from start_time.hour
HasDeadline(start_time) == hour(start_time) = 17 \/ hour(start_time) = 1

eat_deadline(start_time) ==
    IF hour(start_time) = 17 THEN replace(start_time, 17, 30)
    ELSE replace(start_time, 0, 30)

eat_late(start_time, end_time) ==
    IF HasDeadline(start_time) /\ end_time > eat_deadline(start_time)
    THEN int_minutes(end_time - eat_deadline(start_time))
    ELSE 0

late_minutes(break_type, start_time, end_time) ==
    CASE break_type = "wc" -> wc_late(start_time, end_time)
      [] break_type = "smoke" -> smoke_late(start_time, end_time)
      [] break_type = "eat" -> eat_late(start_time, end_time)

\* back_from_break: the counters of the consumed session's kind
record_break(r, break_type, late) ==
    CASE break_type = "wc" ->
           [r EXCEPT !.wc_count = @ + 1, !.wc_late = @ + late]
      [] break_type = "smoke" ->
           [r EXCEPT !.smoke_count = @ + 1, !.smoke_late = @ + late]
      [] break_type = "eat" ->
           [r EXCEPT !.eat_count = @ + 1, !.eat_late = @ + late]

----------------------------------------------------------------------------
(* Owner status synchronizer.  A str is a sequence of one-character
   strings; an owner group is a JSON object, modelled as a function on the
   keys it has. *)

IsSpace(c) == c \in {" ", "\t", "\n"}

RECURSIVE lstrip(_)
lstrip(s) == IF s # <<>> /\ IsSpace(Head(s)) THEN lstrip(Tail(s)) ELSE s

RECURSIVE rstrip(_)
rstrip(s) ==
    IF s # <<>> /\ IsSpace(s[Len(s)])
    THEN rstrip(SubSeq(s, 1, Len(s) - 1))
    ELSE s

strip(s) == rstrip(lstrip(s))

lower_char(c) ==
    CASE c = "F" -> "f"
      [] c = "O" -> "o"
      [] c = "B" -> "b"
      [] c = "Z" -> "z"
      [] OTHER -> c

lower(s) == [i \in 1..Len(s) |-> lower_char(s[i])]

\* _norm_owner_name: strip, drop one leading "@", lower
norm_owner_name(s) ==
    LET t == strip(s)
        r == IF t # <<>> /\ Head(t) = "@" THEN Tail(t) ELSE t
    IN  lower(r)

Group(owner, disabled, tag) ==
    [owner |-> owner, disabled |-> disabled, tag |-> tag]

GroupUntil(owner, disabled, tag, until) ==
    [owner |-> owner, disabled |-> disabled, tag |-> tag,
     disabled_until |-> until]

\* dict.pop(key, None)
PopKey(g, key) == [k \in DOMAIN g \ {key} |-> g[k]]

\* the indices of the groups whose normalized owner is `normalized_name`
Matching(owner_data, normalized_name) ==
    {i \in 1..Len(owner_data) :
        norm_owner_name(owner_data[i].owner) = normalized_name}

FirstOf(S) == CHOOSE i \in S : \A j \in S : i <= j

\* an update of the matching group that leaves disabled_until in place
set_owner_group_keeps_until(g, is_stopped) ==
    [g EXCEPT !.disabled = is_stopped]

\* _set_owner_status_in_db, lines 92-99: the first matching group is
\* updated and the loop stops
set_owner_group(g, is_stopped) ==
    LET d == [g EXCEPT !.disabled = is_stopped]
    IN  IF is_stopped THEN d ELSE PopKey(d, "disabled_until")

\* a set_owner_status that appends a group for a name that has none
set_owner_status_inserts(owner_data, normalized_name, is_stopped) ==
    LET M == Matching(owner_data, normalized_name)
    IN  IF M = {}
        THEN [data |-> Append(owner_data,
                              Group(normalized_name, is_stopped, "")),
              found_owner |-> TRUE]
        ELSE [data |-> [owner_data EXCEPT
                           ![FirstOf(M)] = set_owner_group(@, is_stopped)],
              found_owner |-> TRUE]

set_owner_status(owner_data, normalized_name, is_stopped) ==
    LET M == Matching(owner_data, normalized_name)
    IN  IF M = {}
        THEN [data |-> owner_data, found_owner |-> FALSE]
        ELSE [data |-> [owner_data EXCEPT
                           ![FirstOf(M)] = set_owner_group(@, is_stopped)],
              found_owner |-> TRUE]

\* a stop_all_owners that writes and notifies whether or not a group changed
stop_all_owners_always_writes(owner_data) ==
    [data |-> [i \in 1..Len(owner_data) |->
                  [owner_data[i] EXCEPT !.disabled = TRUE]],
     changes_made |-> TRUE]

\* _stop_all_owners_in_db, lines 125-129
stop_all_owners(owner_data) ==
    [data |-> [i \in 1..Len(owner_data) |->
                  IF owner_data[i].disabled THEN owner_data[i]
                  ELSE [owner_data[i] EXCEPT !.disabled = TRUE]],
     changes_made |-> \E i \in 1..Len(owner_data) : ~owner_data[i].disabled]

----------------------------------------------------------------------------
(* The row of kv_storage with key 'owners'.  SELECT ... FOR UPDATE takes the
   row lock and holds it to the end of the transaction; `lock` is the slot
   of the coroutine of this process that holds it, External for the other
   bot, 0 when free.  `ours` is owner_data as read by the transaction of
   this process, `theirs` what the other bot has read in its transaction. *)

External == -1

NoTransaction ==
    [lock |-> 0, ours |-> <<>>, ext_pc |-> "idle", theirs |-> <<>>]

----------------------------------------------------------------------------
(* Handler coroutines.  A slot holds a coroutine suspended inside the
   synchronizer: at "wait_lock" (db_lock.acquire), at "txn" (inside the
   transaction, db_lock held) or at "release" (the transaction is committed
   and the connection goes back to the pool, db_lock still held).  `now` is
   the handler's local of that name; `notified` tells that the transaction
   of the call has executed NOTIFY owners_changed and committed. *)

Task(op, u, pc, dt) ==
    [op |-> op, user |-> u, pc |-> pc, now |-> dt, notified |-> FALSE]

Idle == Task("idle", 0, "idle", 0)

\* the slot a newly started coroutine takes
FreeSlot(h) == tasks[h] = Idle /\ \A k \in Slots : k < h => tasks[k] # Idle

\* an update that has been received and whose handler has not run yet
Pending(op, u) == Task(op, u, "start", 0)

\* handler `op` starts for user u in slot h: for a pending update, or for
\* one handled as it arrives
Starts(h, op, u) == FreeSlot(h) \/ tasks[h] = Pending(op, u)

\* the handler ends
Ended(h) == [tasks EXCEPT ![h] = Idle]

\* what a handler step did: the handler, whether the step is its "start",
\* the "resume" in which its transaction commits, its "end" after the
\* synchronizer has returned or the "failed" return of the synchronizer, the
\* reply it sent and whether the handler's call of the synchronizer has
\* delivered NOTIFY owners_changed; `cleared` is the number of sessions that
\* the end of the daily job discarded, 0 in every other step
Step(op, step, u, reply, notify) ==
    [op |-> op, step |-> step, user |-> u, reply |-> reply, notify |-> notify,
     cleared |-> 0]

\* the end of the daily job, which discards the sessions of user_breaks
JobEnd(notify, breaks) ==
    [Step("clear_data_job", "end", 0, NoReply, notify)
       EXCEPT !.cleared = Cardinality(DOMAIN breaks)]

\* a back that finds no session: it keeps the count of the step before, so
\* that a back which directly follows the end of the job is told apart
BackFoundNothing(u) ==
    [Step("back", "start", u, NoReply, FALSE) EXCEPT !.cleared = last.cleared]

Quiet == Step("none", "none", 0, NoReply, FALSE)

\* the local `now` is read after the await by check_in alone
Local(op) == IF op = "check_in" THEN now ELSE 0

\* async with db_lock: taken at once when free and nobody waits, else queued
EnterLock(h, op, u) ==
    IF db_lock = 0 /\ db_waiters = <<>>
    THEN /\ db_lock' = h
         /\ db_waiters' = db_waiters
         /\ tasks' = [tasks EXCEPT ![h] = Task(op, u, "txn", Local(op))]
    ELSE /\ db_lock' = db_lock
         /\ db_waiters' = Append(db_waiters, h)
         /\ tasks' = [tasks EXCEPT ![h] = Task(op, u, "wait_lock", Local(op))]

\* the handler calls _set_owner_status_in_db and gets past its two guards
CallsSync(u) ==
    username(u) # NoUsername /\ norm_owner_name(username(u)) # <<>>

\* the breaks counted in the record of user u
BreaksCounted(ud, u) ==
    IF u \in DOMAIN ud
    THEN ud[u].wc_count + ud[u].smoke_count + ud[u].eat_count
    ELSE 0

\* The counters of the program grow without limit.  The runs that are
\* explored are those in which no record has counted more than MaxBreaks
\* breaks so far: a run is followed up to the step that takes a record past
\* that, and this step is explored as well.  No handler is held back: the
\* handlers have no such condition, it is the next-state relations of the
\* specifications with breaks that stop at a state beyond the bound, for
\* every step alike.
CountersBounded ==
    \A u \in DOMAIN user_data : BreaksCounted(user_data, u) <= MaxBreaks

----------------------------------------------------------------------------
(* Handlers *)

check_in(h, u, full_name) ==
    /\ FreeSlot(h)
    /\ user_data' = [ensure_user_data(user_data, u, full_name)
                        EXCEPT ![u].check_in = now]
    /\ IF CallsSync(u)
       THEN /\ EnterLock(h, "check_in", u)
            /\ last' = Step("check_in", "start", u, NoReply, FALSE)
       ELSE /\ last' = Step("check_in", "start", u, check_in_reply(now), FALSE)
            /\ UNCHANGED <<tasks, db_lock, db_waiters>>
    /\ UNCHANGED <<now, user_breaks, kv_owners, reset_day>>
    /\ UNCHANGED row

\* a check_out that makes a record for an id that has none
record_check_out_creates(ud, u, dt) ==
    IF u \in DOMAIN ud THEN [ud EXCEPT ![u].check_out = dt]
    ELSE Put(ud, u, [NewUserRecord("") EXCEPT !.check_out = dt])

\* check_out, lines 213-214
record_check_out(ud, u, dt) ==
    IF u \in DOMAIN ud THEN [ud EXCEPT ![u].check_out = dt] ELSE ud

\* a check-out that goes to the synchronizer only for a user on record
check_out_of_recorded(h, u) ==
    /\ FreeSlot(h)
    /\ IF is_valid_time(now)
       THEN /\ user_data' = record_check_out(user_data, u, now)
            /\ IF CallsSync(u) /\ u \in DOMAIN user_data
               THEN /\ EnterLock(h, "check_out", u)
                    /\ last' = Step("check_out", "start", u, NoReply, FALSE)
               ELSE /\ last' = Step("check_out", "start", u, NoReply, FALSE)
                    /\ UNCHANGED <<tasks, db_lock, db_waiters>>
       ELSE /\ last' = Step("check_out", "start", u, NotAllowedCheckOut, FALSE)
            /\ UNCHANGED <<user_data, tasks, db_lock, db_waiters>>
    /\ UNCHANGED <<now, user_breaks, kv_owners, reset_day>>
    /\ UNCHANGED row

check_out(h, u) ==
    /\ FreeSlot(h)
    /\ IF is_valid_time(now)
       THEN /\ user_data' = record_check_out(user_data, u, now)
            /\ IF CallsSync(u)
               THEN /\ EnterLock(h, "check_out", u)
                    /\ last' = Step("check_out", "start", u, NoReply, FALSE)
               ELSE /\ last' = Step("check_out", "start", u, NoReply, FALSE)
                    /\ UNCHANGED <<tasks, db_lock, db_waiters>>
       ELSE /\ last' = Step("check_out", "start", u, NotAllowedCheckOut, FALSE)
            /\ UNCHANGED <<user_data, tasks, db_lock, db_waiters>>
    /\ UNCHANGED <<now, user_breaks, kv_owners, reset_day>>
    /\ UNCHANGED row

\* a start_break that refuses only a second break of the same kind
start_break_same_kind(breaks, u, break_type, dt) ==
    IF u \notin DOMAIN breaks \/ breaks[u].type # break_type
    THEN [breaks |-> Put(breaks, u, [type |-> break_type, start_time |-> dt]),
          reply |-> NoReply]
    ELSE [breaks |-> breaks, reply |-> AlreadyOnBreak]

\* a start_break without the membership test: the session is overwritten
start_break_overwrites(breaks, u, break_type, dt) ==
    [breaks |-> Put(breaks, u, [type |-> break_type, start_time |-> dt]),
     reply |-> NoReply]

\* wc / smoke / eat, from the membership test on: the new dict and the reply
start_break(breaks, u, break_type, dt) ==
    IF u \notin DOMAIN breaks
    THEN [breaks |-> Put(breaks, u, [type |-> break_type, start_time |-> dt]),
          reply |-> NoReply]
    ELSE [breaks |-> breaks, reply |-> AlreadyOnBreak]

wc(h, u, full_name) ==
    /\ Starts(h, "wc", u)
    /\ user_data' = ensure_user_data(user_data, u, full_name)
    /\ LET res == start_break(user_breaks, u, "wc", now)
       IN  /\ user_breaks' = res.breaks
           /\ last' = Step("wc", "start", u, res.reply, FALSE)
    /\ tasks' = Ended(h)
    /\ UNCHANGED <<now, db_lock, db_waiters, kv_owners, reset_day>>
    /\ UNCHANGED row

smoke(h, u, full_name) ==
    /\ Starts(h, "smoke", u)
    /\ user_data' = ensure_user_data(user_data, u, full_name)
    /\ LET res == start_break(user_breaks, u, "smoke", now)
       IN  /\ user_breaks' = res.breaks
           /\ last' = Step("smoke", "start", u, res.reply, FALSE)
    /\ tasks' = Ended(h)
    /\ UNCHANGED <<now, db_lock, db_waiters, kv_owners, reset_day>>
    /\ UNCHANGED row

eat(h, u, full_name) ==
    /\ Starts(h, "eat", u)
    /\ IF in_eat_time(now)
       THEN /\ user_data' = ensure_user_data(user_data, u, full_name)
            /\ LET res == start_break(user_breaks, u, "eat", now)
               IN  /\ user_breaks' = res.breaks
                   /\ last' = Step("eat", "start", u, res.reply, FALSE)
       ELSE /\ last' = Step("eat", "start", u, NotTimeToEat, FALSE)
            /\ UNCHANGED <<user_data, user_breaks>>
    /\ tasks' = Ended(h)
    /\ UNCHANGED <<now, db_lock, db_waiters, kv_owners, reset_day>>
    /\ UNCHANGED row

\* the reply of back_from_break, lines 314-315
late_reply(late) == IF late > 0 THEN YouAreLate(late) ELSE NoReply

\* a back_from_break that calls _ensure_user_data before the membership test
back_from_break_ensures(h, u, full_name) ==
    /\ Starts(h, "back", u)
    /\ IF u \in DOMAIN user_breaks
       THEN LET break_info == user_breaks[u]
                late == late_minutes(break_info.type, break_info.start_time, now)
                ud == ensure_user_data(user_data, u, full_name)
            IN  /\ user_breaks' = Pop(user_breaks, u)
                /\ user_data' =
                     [ud EXCEPT ![u] = record_break(@, break_info.type, late)]
                /\ last' = Step("back", "start", u, late_reply(late), FALSE)
       ELSE /\ last' = BackFoundNothing(u)
            /\ user_data' = ensure_user_data(user_data, u, full_name)
            /\ UNCHANGED user_breaks
    /\ tasks' = Ended(h)
    /\ UNCHANGED <<now, db_lock, db_waiters, kv_owners, reset_day>>
    /\ UNCHANGED row

back_from_break(h, u, full_name) ==
    /\ Starts(h, "back", u)
    /\ IF u \in DOMAIN user_breaks
       THEN LET break_info == user_breaks[u]
                late == late_minutes(break_info.type, break_info.start_time, now)
                ud == ensure_user_data(user_data, u, full_name)
            IN  /\ user_breaks' = Pop(user_breaks, u)
                /\ user_data' =
                     [ud EXCEPT ![u] = record_break(@, break_info.type, late)]
                /\ last' = Step("back", "start", u, late_reply(late), FALSE)
       ELSE /\ last' = BackFoundNothing(u)
            /\ UNCHANGED <<user_data, user_breaks>>
    /\ tasks' = Ended(h)
    /\ UNCHANGED <<now, db_lock, db_waiters, kv_owners, reset_day>>
    /\ UNCHANGED row

\* the scheduler's daily job, fired at 03:00
clear_data_job(h) ==
    /\ FreeSlot(h)
    /\ time_of(now) = time(3, 0, 0)
    /\ day(now) > reset_day
    /\ reset_day' = day(now)
    /\ EnterLock(h, "clear_data_job", 0)
    /\ last' = Step("clear_data_job", "start", 0, NoReply, FALSE)
    /\ UNCHANGED <<now, user_data, user_breaks, kv_owners>>
    /\ UNCHANGED row

----------------------------------------------------------------------------
(* Resumptions *)

\* db_lock.acquire() returns to the first waiter once the lock is free
lock_acquired(h) ==
    /\ tasks[h].pc = "wait_lock"
    /\ db_lock = 0
    /\ db_waiters # <<>> /\ Head(db_waiters) = h
    /\ db_lock' = h
    /\ db_waiters' = Tail(db_waiters)
    /\ tasks' = [tasks EXCEPT ![h].pc = "txn"]
    /\ last' = Quiet
    /\ UNCHANGED <<now, user_data, user_breaks, kv_owners, reset_day>>
    /\ UNCHANGED row

\* _set_owner_status_in_db up to the commit of its transaction: the row is
\* written and NOTIFY delivered; the coroutine goes on to give back the
\* connection, with db_lock held
set_owner_status_in_db(h) ==
    /\ tasks[h].pc = "txn"
    /\ tasks[h].op \in {"check_in", "check_out"}
    /\ LET t == tasks[h]
           res == set_owner_status(kv_owners,
                                   norm_owner_name(username(t.user)),
                                   t.op = "check_out")
       IN  /\ kv_owners' = res.data
           /\ last' = Step(t.op, "resume", t.user, NoReply, res.found_owner)
           /\ tasks' = [tasks EXCEPT ![h].pc = "release",
                                     ![h].notified = res.found_owner]
    /\ UNCHANGED <<now, user_data, user_breaks, db_lock, db_waiters,
                   reset_day>>
    /\ UNCHANGED row

\* _stop_all_owners_in_db up to the commit of its transaction
stop_all_owners_in_db(h) ==
    /\ tasks[h].pc = "txn"
    /\ tasks[h].op = "clear_data_job"
    /\ LET res == stop_all_owners(kv_owners)
       IN  /\ kv_owners' = res.data
           /\ last' = Step("clear_data_job", "resume", 0, NoReply, res.changes_made)
           /\ tasks' = [tasks EXCEPT ![h].pc = "release",
                                     ![h].notified = res.changes_made]
    /\ UNCHANGED <<now, user_data, user_breaks, db_lock, db_waiters,
                   reset_day>>
    /\ UNCHANGED row

\* the connection is back in the pool: _set_owner_status_in_db releases
\* db_lock and returns, and the calling handler runs on to its reply
owner_status_returns(h) ==
    /\ tasks[h].pc = "release"
    /\ tasks[h].op \in {"check_in", "check_out"}
    /\ LET t == tasks[h]
           reply == IF t.op = "check_in" THEN check_in_reply(t.now)
                    ELSE NoReply
       IN  last' = Step(t.op, "end", t.user, reply, t.notified)
    /\ tasks' = [tasks EXCEPT ![h] = Idle]
    /\ db_lock' = 0
    /\ UNCHANGED <<now, user_data, user_breaks, db_waiters, kv_owners,
                   reset_day>>
    /\ UNCHANGED row

\* a daily job that clears user_breaks and leaves user_data
clear_data_keeps_data(h) ==
    /\ tasks[h].pc = "release"
    /\ tasks[h].op = "clear_data_job"
    /\ last' = JobEnd(tasks[h].notified, user_breaks)
    /\ user_breaks' = EmptyDict
    /\ tasks' = [tasks EXCEPT ![h] = Idle]
    /\ db_lock' = 0
    /\ UNCHANGED <<now, user_data, db_waiters, kv_owners, reset_day>>
    /\ UNCHANGED row

\* a daily job that clears user_data and leaves user_breaks
clear_data_keeps_breaks(h) ==
    /\ tasks[h].pc = "release"
    /\ tasks[h].op = "clear_data_job"
    /\ last' = JobEnd(tasks[h].notified, user_breaks)
    /\ user_data' = EmptyDict
    /\ tasks' = [tasks EXCEPT ![h] = Idle]
    /\ db_lock' = 0
    /\ UNCHANGED <<now, user_breaks, db_waiters, kv_owners, reset_day>>
    /\ UNCHANGED row

\* the connection is back in the pool: _stop_all_owners_in_db releases
\* db_lock and returns, and clear_data_job clears both dicts
clear_data(h) ==
    /\ tasks[h].pc = "release"
    /\ tasks[h].op = "clear_data_job"
    /\ last' = JobEnd(tasks[h].notified, user_breaks)
    /\ user_data' = EmptyDict
    /\ user_breaks' = EmptyDict
    /\ tasks' = [tasks EXCEPT ![h] = Idle]
    /\ db_lock' = 0
    /\ UNCHANGED <<now, db_waiters, kv_owners, reset_day>>
    /\ UNCHANGED row

----------------------------------------------------------------------------
(* The transaction of the synchronizer with its SELECT apart, for a store
   that the other bot writes too: the SELECT ... FOR UPDATE, which waits for
   the row lock, and the rest of the transaction up to its commit, which
   frees the row lock.  No statement
   sets a lock_timeout, a statement timeout or a command_timeout, so the
   SELECT waits for as long as the row stays locked. *)

\* a SELECT without FOR UPDATE: the row is read without taking its lock
select_without_lock(h) ==
    /\ tasks[h].pc = "txn"
    /\ row' = [row EXCEPT !.ours = kv_owners]
    /\ tasks' = [tasks EXCEPT ![h].pc = "row"]
    /\ last' = Quiet
    /\ UNCHANGED <<now, user_data, user_breaks, db_lock, db_waiters,
                   kv_owners, reset_day>>

\* fetchval("SELECT data ... FOR UPDATE") returns: the row lock is ours
select_for_update(h) ==
    /\ tasks[h].pc = "txn"
    /\ row.lock = 0
    /\ row' = [row EXCEPT !.lock = h, !.ours = kv_owners]
    /\ tasks' = [tasks EXCEPT ![h].pc = "row"]
    /\ last' = Quiet
    /\ UNCHANGED <<now, user_data, user_breaks, db_lock, db_waiters,
                   kv_owners, reset_day>>

\* the row lock goes with the end of the transaction that holds it
Unlock(h) == [row EXCEPT !.lock = IF @ = h THEN 0 ELSE @]

\* _set_owner_status_in_db from json.loads to the commit: the list that
\* was read is updated and written back and the row lock is freed
commit_owner_status(h) ==
    /\ tasks[h].pc = "row"
    /\ tasks[h].op \in {"check_in", "check_out"}
    /\ LET t == tasks[h]
           res == set_owner_status(row.ours,
                                   norm_owner_name(username(t.user)),
                                   t.op = "check_out")
       IN  /\ kv_owners' = IF res.found_owner THEN res.data ELSE kv_owners
           /\ last' = Step(t.op, "resume", t.user, NoReply, res.found_owner)
           /\ tasks' = [tasks EXCEPT ![h].pc = "release",
                                     ![h].notified = res.found_owner]
    /\ row' = Unlock(h)
    /\ UNCHANGED <<now, user_data, user_breaks, db_lock, db_waiters,
                   reset_day>>

\* _stop_all_owners_in_db from json.loads to the commit
commit_stop_all_owners(h) ==
    /\ tasks[h].pc = "row"
    /\ tasks[h].op = "clear_data_job"
    /\ LET res == stop_all_owners(row.ours)
       IN  /\ kv_owners' = IF res.changes_made THEN res.data ELSE kv_owners
           /\ last' = Step("clear_data_job", "resume", 0, NoReply, res.changes_made)
           /\ tasks' = [tasks EXCEPT ![h].pc = "release",
                                     ![h].notified = res.changes_made]
    /\ row' = Unlock(h)
    /\ UNCHANGED <<now, user_data, user_breaks, db_lock, db_waiters,
                   reset_day>>

(* The other bot: its own row-locked read-modify-write of the owners row,
   here the opening or closing of the first owner group. *)

ExternalWrite(owner_data) == [owner_data EXCEPT ![1].disabled = ~@]

external_select_for_update ==
    /\ row.ext_pc = "idle"
    /\ row.lock = 0
    /\ row' = [row EXCEPT !.lock = External, !.ext_pc = "txn",
                          !.theirs = kv_owners]
    /\ last' = Quiet
    /\ UNCHANGED <<now, user_data, user_breaks, tasks, db_lock, db_waiters,
                   kv_owners, reset_day>>

external_commit ==
    /\ row.ext_pc = "txn"
    /\ kv_owners' = ExternalWrite(row.theirs)
    /\ row' = [row EXCEPT !.lock = 0, !.ext_pc = "idle"]
    /\ last' = Quiet
    /\ UNCHANGED <<now, user_data, user_breaks, tasks, db_lock, db_waiters,
                   reset_day>>

----------------------------------------------------------------------------
(* Failures of the synchronizer.  Any statement of the try block may raise
   (no pool, no connection, a failed statement, a payload that json.loads
   or the loop cannot handle): `except Exception` logs the error, `async
   with db_lock` releases the lock and the caller runs on.  A failure before
   the commit (pc "txn") rolls the transaction back; a failure of the
   release of the connection (pc "release") comes after the commit, whose
   write and NOTIFY stay. *)

\* a failed call that is left holding db_lock
set_owner_status_fails_holding_lock(h) ==
    /\ tasks[h].pc \in {"txn", "release"}
    /\ tasks[h].op \in {"check_in", "check_out"}
    /\ LET t == tasks[h]
           reply == IF t.op = "check_in" THEN check_in_reply(t.now)
                    ELSE NoReply
       IN  last' = Step(t.op, "failed", t.user, reply, t.notified)
    /\ tasks' = [tasks EXCEPT ![h] = Idle]
    /\ UNCHANGED <<now, user_data, user_breaks, db_lock, db_waiters,
                   kv_owners, reset_day>>
    /\ UNCHANGED row

\* _set_owner_status_in_db raises inside the try block
set_owner_status_fails(h) ==
    /\ tasks[h].pc \in {"txn", "release"}
    /\ tasks[h].op \in {"check_in", "check_out"}
    /\ LET t == tasks[h]
           reply == IF t.op = "check_in" THEN check_in_reply(t.now)
                    ELSE NoReply
       IN  last' = Step(t.op, "failed", t.user, reply, t.notified)
    /\ tasks' = [tasks EXCEPT ![h] = Idle]
    /\ db_lock' = 0
    /\ UNCHANGED <<now, user_data, user_breaks, db_waiters, kv_owners,
                   reset_day>>
    /\ UNCHANGED row

\* _stop_all_owners_in_db raises inside the try block, then clear_data_job
\* clears both dicts
stop_all_owners_fails(h) ==
    /\ tasks[h].pc \in {"txn", "release"}
    /\ tasks[h].op = "clear_data_job"
    /\ last' = Step("clear_data_job", "failed", 0, NoReply, tasks[h].notified)
    /\ user_data' = EmptyDict
    /\ user_breaks' = EmptyDict
    /\ tasks' = [tasks EXCEPT ![h] = Idle]
    /\ db_lock' = 0
    /\ UNCHANGED <<now, db_waiters, kv_owners, reset_day>>
    /\ UNCHANGED row

----------------------------------------------------------------------------
(* The clock.  The scheduler fires the 03:00 job on time, so the clock does
   not pass a 03:00 whose job has not been fired. *)

NextReset == At(reset_day + 1, 3, 0, 0)

Tick(T) ==
    /\ \E t \in T : t > now /\ t <= NextReset /\ now' = t
    /\ last' = Quiet
    /\ UNCHANGED <<user_data, user_breaks, tasks, db_lock, db_waiters,
                   kv_owners, reset_day>>
    /\ UNCHANGED row

InitAt(T0, Stores) ==
    /\ now \in T0
    /\ user_data = EmptyDict
    /\ user_breaks = EmptyDict
    /\ tasks = [h \in Slots |-> Idle]
    /\ db_lock = 0
    /\ db_waiters = <<>>
    /\ kv_owners \in Stores
    /\ reset_day = IF time_of(now) >= time(3, 0, 0) THEN day(now)
                   ELSE day(now) - 1
    /\ row = NoTransaction
    /\ last = Quiet

\* the owners row as the other bot may have left it: with a group for the
\* handle of user 1 (written "@FOO ", closed until a date, and once more as
\* "foo"), or without one
OwnersInit ==
    {<<Group(<<"B", "a", "r">>, FALSE, "x"),
       GroupUntil(<<"@", "F", "O", "O", " ">>, TRUE, "y", 1),
       Group(<<"f", "o", "o">>, TRUE, "z")>>,
     <<Group(<<"B", "a", "r">>, FALSE, "x")>>}

----------------------------------------------------------------------------
(* Attendance and the synchronizer: check-in, check-out and the daily job,
   interleaved at the awaits of the synchronizer *)

Times == {At(0, 17, 5, 0), At(0, 21, 30, 0), At(1, 3, 0, 0)}

Init == InitAt({At(0, 17, 5, 0)}, OwnersInit)

tick == Tick(Times)

Next ==
    \/ tick
    \/ \E h \in Slots :
          \/ \E u \in Users :
                \/ \E full_name \in Names(u) : check_in(h, u, full_name)
                \/ check_out(h, u)
          \/ clear_data_job(h)
          \/ lock_acquired(h)
          \/ set_owner_status_in_db(h)
          \/ owner_status_returns(h)
          \/ stop_all_owners_in_db(h)
          \/ clear_data(h)

Spec == Init /\ [][Next]_vars

----------------------------------------------------------------------------
(* The break tracker: wc, smoke, eat and back *)

BreakTimes == {At(0, 17, 5, 0), At(0, 17, 17, 0), At(0, 17, 45, 0)}

InitBreak ==
    InitAt({At(0, 17, 5, 0)}, {<<Group(<<"B", "a", "r">>, FALSE, "x")>>})

tickBreak == Tick(BreakTimes)

NextBreak ==
    \/ CountersBounded /\ tickBreak
    \/ \E h \in Slots :
          \/ \E u \in Users : \E full_name \in Names(u) :
                \/ CountersBounded /\ wc(h, u, full_name)
                \/ CountersBounded /\ smoke(h, u, full_name)
                \/ CountersBounded /\ eat(h, u, full_name)
                \/ CountersBounded /\ back_from_break(h, u, full_name)

SpecBreak == InitBreak /\ [][NextBreak]_vars

----------------------------------------------------------------------------
(* The break tracker and the daily job: breaks of the evening, the job of
   03:00 and the breaks that are asked for while the job is suspended *)

NightTimes == {At(0, 17, 45, 0), At(1, 3, 0, 0)}

InitNight ==
    InitAt({At(0, 17, 45, 0)}, {<<Group(<<"B", "a", "r">>, FALSE, "x")>>})

tickNight == Tick(NightTimes)

NextNight ==
    \/ CountersBounded /\ tickNight
    \/ \E h \in Slots :
          \/ \E u \in Users : \E full_name \in Names(u) :
                \/ CountersBounded /\ wc(h, u, full_name)
                \/ CountersBounded /\ smoke(h, u, full_name)
                \/ CountersBounded /\ eat(h, u, full_name)
                \/ CountersBounded /\ back_from_break(h, u, full_name)
          \/ CountersBounded /\ clear_data_job(h)
          \/ CountersBounded /\ stop_all_owners_in_db(h)
          \/ CountersBounded /\ clear_data(h)

SpecNight == InitNight /\ [][NextNight]_vars

----------------------------------------------------------------------------
(* The time-of-day policy on a fine clock.  The clock steps through the
   instants around one policy boundary; which boundary is chosen at the
   start. *)

Offsets(base, S) == {base + x : x \in S}

Earliest(S) == CHOOSE t \in S : \A x \in S : t <= x

TickWithin(Scenarios) == \E S \in Scenarios : now \in S /\ Tick(S)

\* the wc and smoke ceilings, from a break started at 10:00:00
AroundCeilings ==
    Offsets(At(0, 10, 0, 0),
            {0, time(0, 10, 0), time(0, 10, 1), time(0, 11, 0), time(0, 15, 0),
             time(0, 15, 59), time(0, 16, 0), time(0, 16, 30)})

\* the dinner window 17:00-17:30, and the night after it
AroundDinner ==
    {At(0, 16, 59, 59), At(0, 17, 0, 0), At(0, 17, 5, 0), At(0, 17, 30, 0),
     At(0, 17, 30, 59), At(0, 17, 31, 0), At(0, 17, 45, 0), At(1, 0, 35, 0)}

\* the window 00:30-01:00
AroundMidnightMeal ==
    {At(1, 0, 29, 59), At(1, 0, 30, 0), At(1, 0, 35, 0), At(1, 1, 0, 0),
     At(1, 1, 0, 59), At(1, 1, 20, 0)}

(* Lateness of breaks: a user without a handle takes breaks *)

LateScenarios == {AroundCeilings, AroundDinner, AroundMidnightMeal}

LateUsers == {2}

InitLate ==
    InitAt({Earliest(S) : S \in LateScenarios},
           {<<Group(<<"B", "a", "r">>, FALSE, "x")>>})

tickLate == TickWithin(LateScenarios)

NextLate ==
    \/ CountersBounded /\ tickLate
    \/ \E h \in Slots : \E u \in LateUsers : \E full_name \in Names(u) :
          \/ CountersBounded /\ wc(h, u, full_name)
          \/ CountersBounded /\ smoke(h, u, full_name)
          \/ CountersBounded /\ eat(h, u, full_name)
          \/ CountersBounded /\ back_from_break(h, u, full_name)

SpecLate == InitLate /\ [][NextLate]_vars

(* The gates of check-in, check-out and eat: the user with the handle *)

\* the check-in windows 13:00-15:00 and 15:05-21:00
AroundCheckIn ==
    {At(0, 12, 59, 59), At(0, 13, 0, 0), At(0, 14, 59, 59), At(0, 15, 0, 0),
     At(0, 15, 5, 0), At(0, 15, 5, 1), At(0, 15, 10, 0), At(0, 15, 10, 59)}

\* the start of the check-out window 21:00-23:59:59 and of the check-in
\* window 21:01-21:59
AroundEvening ==
    {At(0, 20, 59, 59), At(0, 21, 0, 0), At(0, 21, 1, 0), At(0, 21, 1, 1),
     At(0, 21, 30, 30)}

\* their ends
AroundLateEvening ==
    {At(0, 21, 58, 59), At(0, 21, 59, 0), At(0, 23, 59, 59), At(1, 0, 0, 0)}

\* the check-out window 03:00-06:00
AroundMorning == {At(0, 5, 59, 59), At(0, 6, 0, 0), At(0, 6, 0, 1)}

AroundNight == {At(1, 2, 59, 59), At(1, 3, 0, 0)}

\* the edges of the two eating windows
DinnerEdges ==
    {At(0, 16, 59, 59), At(0, 17, 0, 0), At(0, 17, 30, 0), At(0, 17, 30, 1)}

MidnightMealEdges ==
    {At(1, 0, 29, 59), At(1, 0, 30, 0), At(1, 1, 0, 0), At(1, 1, 0, 1)}

GateScenarios ==
    {AroundCheckIn, AroundEvening, AroundLateEvening, AroundMorning,
     AroundNight, DinnerEdges, MidnightMealEdges}

GateUsers == {1}

InitGate ==
    InitAt({Earliest(S) : S \in GateScenarios},
           {<<GroupUntil(<<"@", "F", "O", "O", " ">>, TRUE, "y", 1)>>})

tickGate == TickWithin(GateScenarios)

NextGate ==
    \/ tickGate
    \/ \E h \in Slots : \E u \in GateUsers :
          \/ \E full_name \in Names(u) :
                \/ check_in(h, u, full_name)
                \/ eat(h, u, full_name)
          \/ check_out(h, u)
          \/ lock_acquired(h)
          \/ set_owner_status_in_db(h)
          \/ owner_status_returns(h)

SpecGate == InitGate /\ [][NextGate]_vars

----------------------------------------------------------------------------
(* Racing break-starts: updates of one user are received first and their
   handlers run later, in any order, so that several handlers for the user
   are pending at the same time *)

RaceUsers == {1}

receive(h, op, u) ==
    /\ FreeSlot(h)
    /\ tasks' = [tasks EXCEPT ![h] = Pending(op, u)]
    /\ last' = Quiet
    /\ UNCHANGED <<now, user_data, user_breaks, db_lock, db_waiters,
                   kv_owners, reset_day>>
    /\ UNCHANGED row

RaceTimes == {At(0, 17, 5, 0), At(0, 17, 45, 0)}

InitRace ==
    InitAt({At(0, 17, 5, 0)}, {<<Group(<<"B", "a", "r">>, FALSE, "x")>>})

tickRace == Tick(RaceTimes)

NextRace ==
    \/ CountersBounded /\ tickRace
    \/ \E h \in Slots : \E u \in RaceUsers :
          \/ CountersBounded
             /\ \E op \in {"wc", "smoke", "eat"} : receive(h, op, u)
          \/ \E full_name \in Names(u) :
                \/ CountersBounded /\ wc(h, u, full_name)
                \/ CountersBounded /\ smoke(h, u, full_name)
                \/ CountersBounded /\ eat(h, u, full_name)
                \/ CountersBounded /\ back_from_break(h, u, full_name)

SpecRace == InitRace /\ [][NextRace]_vars

----------------------------------------------------------------------------
(* Repeated check-ins: the user with the handle checks in, takes breaks,
   checks out and checks in again *)

AgainUsers == {1}

AgainTimes == {At(0, 14, 0, 0), At(0, 14, 20, 0), At(0, 21, 30, 0)}

InitAgain ==
    InitAt({At(0, 14, 0, 0)},
           {<<GroupUntil(<<"@", "F", "O", "O", " ">>, TRUE, "y", 1),
              Group(<<"f", "o", "o">>, TRUE, "z")>>})

tickAgain == Tick(AgainTimes)

NextAgain ==
    \/ CountersBounded /\ tickAgain
    \/ \E h \in Slots : \E u \in AgainUsers :
          \/ \E full_name \in Names(u) :
                \/ CountersBounded /\ check_in(h, u, full_name)
                \/ CountersBounded /\ wc(h, u, full_name)
                \/ CountersBounded /\ back_from_break(h, u, full_name)
          \/ CountersBounded /\ check_out(h, u)
          \/ CountersBounded /\ lock_acquired(h)
          \/ CountersBounded /\ set_owner_status_in_db(h)
          \/ CountersBounded /\ owner_status_returns(h)

SpecAgain == InitAgain /\ [][NextAgain]_vars

----------------------------------------------------------------------------
(* The daily job on two consecutive days, with and without a check-in or a
   check-out of the user with the handle in between *)

ResetUsers == {1}

ResetTimes == {At(0, 21, 30, 0), At(1, 3, 0, 0), At(2, 3, 0, 0)}

InitReset == InitAt({At(0, 21, 30, 0)}, OwnersInit)

tickReset == Tick(ResetTimes)

NextDaily ==
    \/ tickReset
    \/ \E h \in Slots :
          \/ \E u \in ResetUsers :
                \/ \E full_name \in Names(u) : check_in(h, u, full_name)
                \/ check_out(h, u)
          \/ clear_data_job(h)
          \/ lock_acquired(h)
          \/ set_owner_status_in_db(h)
          \/ owner_status_returns(h)
          \/ stop_all_owners_in_db(h)
          \/ clear_data(h)

SpecReset == InitReset /\ [][NextDaily]_vars

----------------------------------------------------------------------------
(* An unreliable store: every call of the synchronizer may fail *)

FailUsers == {1}

InitFail == InitAt({At(0, 17, 5, 0)}, OwnersInit)

tickFail == Tick(Times)

NextFail ==
    \/ tickFail
    \/ \E h \in Slots :
          \/ \E u \in FailUsers :
                \/ \E full_name \in Names(u) :
                      \/ check_in(h, u, full_name)
                      \/ wc(h, u, full_name)
                \/ check_out(h, u)
          \/ clear_data_job(h)
          \/ lock_acquired(h)
          \/ set_owner_status_in_db(h)
          \/ owner_status_returns(h)
          \/ set_owner_status_fails(h)
          \/ stop_all_owners_in_db(h)
          \/ clear_data(h)
          \/ stop_all_owners_fails(h)

SpecFail == InitFail /\ [][NextFail]_vars

----------------------------------------------------------------------------
(* A store shared with the other bot: the user with the handle checks in
   and out and the daily job runs while the other bot writes the row *)

RowUsers == {1}

RowTimes == {At(0, 21, 30, 0), At(1, 3, 0, 0)}

InitRow ==
    InitAt({At(0, 21, 30, 0)},
           {<<Group(<<"B", "a", "r">>, FALSE, "x"),
              GroupUntil(<<"@", "F", "O", "O", " ">>, TRUE, "y", 1),
              Group(<<"f", "o", "o">>, TRUE, "z")>>})

tickRow == Tick(RowTimes)

\* the steps of the coroutine in slot h that wait for nothing but the
\* event loop and a free lock
RunTask(h) ==
    \/ lock_acquired(h)
    \/ select_for_update(h)
    \/ commit_owner_status(h)
    \/ commit_stop_all_owners(h)
    \/ owner_status_returns(h)
    \/ clear_data(h)

RunRow == \E h \in Slots : RunTask(h)

NextRow ==
    \/ tickRow
    \/ \E h \in Slots :
          \/ \E u \in RowUsers :
                \/ \E full_name \in Names(u) : check_in(h, u, full_name)
                \/ check_out(h, u)
          \/ clear_data_job(h)
    \/ RunRow
    \/ external_select_for_update
    \/ external_commit

SpecRow == InitRow /\ [][NextRow]_vars

\* the event loop runs every coroutine that can run, and a SELECT that
\* waits for the row lock is served once the lock is released (the waiters
\* of a row lock queue up); nothing makes the other bot end its transaction
SpecRowFair == SpecRow /\ \A h \in Slots : SF_vars(RunTask(h))

----------------------------------------------------------------------------
(* Check-outs on a store that has outlived the registry: the dicts are
   empty after a start of the process while the owners row keeps the
   entries that earlier check-ins have opened *)

OwnersOpen ==
    {<<Group(<<"B", "a", "r">>, FALSE, "x"),
       Group(<<"@", "F", "O", "O", " ">>, FALSE, "y"),
       Group(<<"f", "o", "o">>, FALSE, "z")>>,
     <<Group(<<"B", "a", "r">>, FALSE, "x"),
       Group(<<"f", "o", "o">>, TRUE, "z")>>}

OutTimes == {At(0, 20, 59, 59), At(0, 21, 0, 0), At(0, 23, 59, 59)}

InitOut == InitAt({At(0, 20, 59, 59)}, OwnersOpen)

tickOut == Tick(OutTimes)

NextOut ==
    \/ tickOut
    \/ \E h \in Slots :
          \/ \E u \in Users :
                \/ \E full_name \in Names(u) : check_in(h, u, full_name)
                \/ check_out(h, u)
          \/ lock_acquired(h)
          \/ set_owner_status_in_db(h)
          \/ owner_status_returns(h)

SpecOut == InitOut /\ [][NextOut]_vars

----------------------------------------------------------------------------
(* Claims *)

BreakOps == {"wc", "smoke", "eat"}

\* the step just taken is handler `op` run for user u
Ran(op, u) == last'.op = op /\ last'.user = u /\ last'.step = "start"

\* the step just taken commits the transaction that handler `op` of user u
\* has opened in the synchronizer
Resumed(op, u) == last'.op = op /\ last'.user = u /\ last'.step = "resume"

\* the step just taken ends handler `op` of user u, whose call of the
\* synchronizer has returned
Returned(op, u) == last'.op = op /\ last'.user = u /\ last'.step = "end"

\* C1 as stated: a break-start (wc, smoke or eat) for a user who has an
\* active session is answered with the already-on-break reply whatever the
\* kind, and the session is left as it was.
C1_AsStated ==
    [][\A u \in Users : \A op \in BreakOps :
          (Ran(op, u) /\ u \in DOMAIN user_breaks)
          => /\ last'.reply = AlreadyOnBreak
             /\ user_breaks' = user_breaks]_vars

\* C1, amended: a break-start for a user who has an active session is
\* refused and the session (its kind and start time) is left as it was; the
\* refusal is the already-on-break reply for wc, for smoke and for an eat
\* sent inside an eating window, and the not-time-to-eat reply for an eat
\* sent outside the eating windows.
C1_BreakExclusive ==
    [][\A u \in Users : \A op \in BreakOps :
          (Ran(op, u) /\ u \in DOMAIN user_breaks)
          => /\ last'.reply = IF op = "eat" /\ ~in_eat_time(now)
                              THEN NotTimeToEat ELSE AlreadyOnBreak
             /\ user_breaks' = user_breaks]_vars

\* C1 witness: a smoke was refused while the user's wc session stays open
C1_Witness ==
    /\ last.op = "smoke"
    /\ last.reply = AlreadyOnBreak
    /\ last.user \in DOMAIN user_breaks
    /\ user_breaks[last.user].type = "wc"
    /\ user_breaks[last.user].start_time < now

----------------------------------------------------------------------------

\* two handlers for user u are in flight: the one in slot h and another one
Racing(h, u) ==
    /\ tasks[h].pc = "start" /\ tasks[h].user = u
    /\ \E k \in Slots \ {h} : tasks[k].pc = "start" /\ tasks[k].user = u

Session(break_type, dt) == [type |-> break_type, start_time |-> dt]

\* C2 as stated: of two break-start handlers in flight for one user, the
\* one that runs while the user has no session creates it and the one that
\* runs while the user has a session is answered already-on-break; the
\* handler ends in the step that tests and inserts.
C2_AsStated ==
    [][\A u \in Users : \A h \in Slots : \A op \in BreakOps :
          (Racing(h, u) /\ tasks[h] = Pending(op, u) /\ tasks'[h] # tasks[h])
          => /\ tasks'[h] = Idle
             /\ Ran(op, u)
             /\ IF u \notin DOMAIN user_breaks
                THEN /\ user_breaks' = Put(user_breaks, u, Session(op, now))
                     /\ last'.reply = NoReply
                ELSE /\ user_breaks' = user_breaks
                     /\ last'.reply = AlreadyOnBreak]_vars

\* C2, amended: of two break-start handlers in flight for one user, each a
\* wc, a smoke or an eat sent inside an eating window, the one that runs
\* while the user has no session creates it and the one that runs while the
\* user has a session is answered already-on-break; an eat sent outside the
\* eating windows creates nothing and is answered not-time-to-eat; in every
\* case the handler ends in the step that tests and inserts, so the test and
\* the insertion are not separated by a suspension point.
C2_TestAndInsertAtomic ==
    [][\A u \in Users : \A h \in Slots : \A op \in BreakOps :
          (Racing(h, u) /\ tasks[h] = Pending(op, u) /\ tasks'[h] # tasks[h])
          => /\ tasks'[h] = Idle
             /\ Ran(op, u)
             /\ IF op = "eat" /\ ~in_eat_time(now)
                THEN /\ user_breaks' = user_breaks
                     /\ last'.reply = NotTimeToEat
                ELSE IF u \notin DOMAIN user_breaks
                THEN /\ user_breaks' = Put(user_breaks, u, Session(op, now))
                     /\ last'.reply = NoReply
                ELSE /\ user_breaks' = user_breaks
                     /\ last'.reply = AlreadyOnBreak]_vars

\* C2 witness: two handlers were pending for the user; the one in the first
\* slot has run and created the session, the other is still to run
C2_Witness ==
    /\ last.op \in BreakOps
    /\ last.reply = NoReply
    /\ last.user \in DOMAIN user_breaks
    /\ user_breaks[last.user] = Session(last.op, now)
    /\ tasks[1] = Idle
    /\ tasks[2].pc = "start"
    /\ tasks[2].user = last.user
    /\ tasks[2].op # last.op

----------------------------------------------------------------------------

CountOf(r, break_type) ==
    CASE break_type = "wc" -> r.wc_count
      [] break_type = "smoke" -> r.smoke_count
      [] break_type = "eat" -> r.eat_count

LateOf(r, break_type) ==
    CASE break_type = "wc" -> r.wc_late
      [] break_type = "smoke" -> r.smoke_late
      [] break_type = "eat" -> r.eat_late

\* record r2 is record r1 but for the count and the late total of one kind
SameButKind(r1, r2, break_type) ==
    /\ r2.name = r1.name
    /\ r2.check_in = r1.check_in
    /\ r2.check_out = r1.check_out
    /\ \A k \in BreakOps \ {break_type} :
          CountOf(r2, k) = CountOf(r1, k) /\ LateOf(r2, k) = LateOf(r1, k)

\* the records of all users but u are the same in both dicts
SameButUser(d1, d2, u) ==
    /\ DOMAIN d2 \ {u} = DOMAIN d1 \ {u}
    /\ \A v \in DOMAIN d1 \ {u} : d2[v] = d1[v]

\* C3: a back for a user with an active session removes the session, adds 1
\* to the count of the session's kind and the computed late minutes to that
\* kind's late total, and touches nothing else; a back that directly follows
\* a back of the same user finds no session and changes nothing.
C3_ConsumedOnce ==
    [][\A u \in Users :
          /\ (Ran("back", u) /\ u \in DOMAIN user_breaks)
             => LET k == user_breaks[u].type
                    late == late_minutes(k, user_breaks[u].start_time, now)
                IN  /\ u \in DOMAIN user_data
                    /\ u \notin DOMAIN user_breaks'
                    /\ SameButUser(user_breaks, user_breaks', u)
                    /\ CountOf(user_data'[u], k) = CountOf(user_data[u], k) + 1
                    /\ LateOf(user_data'[u], k) = LateOf(user_data[u], k) + late
                    /\ SameButKind(user_data[u], user_data'[u], k)
                    /\ SameButUser(user_data, user_data', u)
          /\ (last.op = "back" /\ last.user = u /\ Ran("back", u))
             => /\ u \notin DOMAIN user_breaks
                /\ UNCHANGED <<user_data, user_breaks>>
                /\ last'.reply = NoReply]_vars

\* C3 witness: the user's smoke break of 12 minutes has been consumed by a
\* back: counted once, 2 minutes late, no session left
C3_Witness ==
    /\ last.op = "back"
    /\ last.reply = YouAreLate(2)
    /\ last.user \in DOMAIN user_data
    /\ last.user \notin DOMAIN user_breaks
    /\ user_data[last.user].smoke_count = 1
    /\ user_data[last.user].smoke_late = 2

\* C4: a back for a user with no active session leaves the registry (the
\* records and the set of users that have one), the break tracker and the
\* owner store unchanged and sends no reply.
C4_BackWithoutSession ==
    [][\A u \in Users :
          (Ran("back", u) /\ u \notin DOMAIN user_breaks)
          => /\ UNCHANGED <<user_data, user_breaks, kv_owners>>
             /\ last'.reply = NoReply]_vars

\* C4 witness: a back has run for a user who has no session and no record
\* while another user has both
C4_Witness ==
    /\ last.op = "back"
    /\ last.user \notin DOMAIN user_data
    /\ last.user \notin DOMAIN user_breaks
    /\ user_breaks # EmptyDict
    /\ last.reply = NoReply

----------------------------------------------------------------------------

grace_ceiling(break_type) == IF break_type = "wc" THEN 15 ELSE 10

\* C5: for a wc (ceiling 15) and a smoke (ceiling 10) break, with d the whole
\* minutes between the start of the session and the back (truncated), the
\* minutes added to the kind's late total are 0 when d <= ceiling and
\* d - ceiling when d > ceiling, and a lateness reply is sent exactly when
\* the added minutes are more than 0.
C5_GraceCeiling ==
    [][\A u \in Users :
          (/\ Ran("back", u)
           /\ u \in DOMAIN user_breaks
           /\ user_breaks[u].type \in {"wc", "smoke"})
          => LET k == user_breaks[u].type
                 d == (now - user_breaks[u].start_time) \div 60
                 late == IF d <= grace_ceiling(k) THEN 0
                         ELSE d - grace_ceiling(k)
             IN  /\ LateOf(user_data'[u], k) = LateOf(user_data[u], k) + late
                 /\ last'.reply = IF late > 0 THEN YouAreLate(late)
                                  ELSE NoReply]_vars

\* C5 witness: a wc break came back 1 minute over its ceiling and a smoke
\* break within its ceiling
C5_Witness ==
    /\ last.op = "back"
    /\ last.user \in DOMAIN user_data
    /\ user_data[last.user].wc_count = 1
    /\ user_data[last.user].wc_late = 1
    /\ user_data[last.user].smoke_count = 1
    /\ user_data[last.user].smoke_late = 0

----------------------------------------------------------------------------

\* the eating windows 17:00-17:30 and 00:30-01:00, as times of day
InDinnerWindow(dt) ==
    time(17, 0, 0) <= time_of(dt) /\ time_of(dt) <= time(17, 30, 0)

InMidnightWindow(dt) ==
    time(0, 30, 0) <= time_of(dt) /\ time_of(dt) <= time(1, 0, 0)

EatingWindow(dt) == InDinnerWindow(dt) \/ InMidnightWindow(dt)

\* the end of the eating window that holds dt, on the calendar day of dt
window_end(dt) ==
    IF InDinnerWindow(dt) THEN replace(dt, 17, 30) ELSE replace(dt, 1, 0)

\* C6: for an eat break started inside an eating window (17:00-17:30 or
\* 00:30-01:00), the late minutes recorded at the back are 0 when the back
\* is not after the end of that window on the day of the start, and else the
\* whole minutes elapsed past that end; for both windows.
C6_EatLateBothWindows ==
    [][\A u \in Users :
          (/\ Ran("back", u)
           /\ u \in DOMAIN user_breaks
           /\ user_breaks[u].type = "eat"
           /\ EatingWindow(user_breaks[u].start_time))
          => LET end == window_end(user_breaks[u].start_time)
                 late == IF now <= end THEN 0 ELSE (now - end) \div 60
             IN  LateOf(user_data'[u], "eat")
                    = LateOf(user_data[u], "eat") + late]_vars

----------------------------------------------------------------------------

\* the check-out windows 21:00-23:59:59 and 03:00-06:00, as times of day
AllowedCheckOut(dt) ==
    \/ time(21, 0, 0) <= time_of(dt) /\ time_of(dt) <= time(23, 59, 59)
    \/ time(3, 0, 0) <= time_of(dt) /\ time_of(dt) <= time(6, 0, 0)

\* C7: a check-out outside the allowed windows (21:00-23:59:59, 03:00-06:00)
\* and an eat outside the eating windows each send their fixed refusal and
\* leave the registry (check_out included), the break tracker and the owner
\* store unchanged; the synchronizer is not entered (no coroutine is
\* suspended, the lock and its queue are untouched).
C7_RefusedMutatesNothing ==
    [][\A u \in Users :
          /\ (Ran("check_out", u) /\ ~AllowedCheckOut(now))
             => /\ last'.reply = NotAllowedCheckOut
                /\ UNCHANGED <<user_data, user_breaks, kv_owners,
                               tasks, db_lock, db_waiters>>
          /\ (Ran("eat", u) /\ ~EatingWindow(now))
             => /\ last'.reply = NotTimeToEat
                /\ UNCHANGED <<user_data, user_breaks, kv_owners,
                               db_lock, db_waiters>>
                /\ \A h \in Slots : tasks'[h] = tasks[h] \/ tasks'[h] = Idle]_vars

\* C7 witness: a check-out was refused for a user who has checked in, has
\* not checked out and is on an eat break
C7_Witness ==
    /\ last.op = "check_out"
    /\ last.reply = NotAllowedCheckOut
    /\ last.user \in DOMAIN user_data
    /\ user_data[last.user].check_in # None
    /\ user_data[last.user].check_out = None
    /\ last.user \in DOMAIN user_breaks
    /\ \A h \in Slots : tasks[h] = Idle

\* C8: a check-out inside an allowed window for a user who has no record
\* creates no record, changes no record and sends no reply, neither when the
\* handler starts, nor when its transaction commits, nor when it ends after
\* the synchronizer has returned.
C8_CheckOutUnknownUser ==
    [][\A u \in Users :
          /\ (Ran("check_out", u) /\ AllowedCheckOut(now)
                /\ u \notin DOMAIN user_data)
             => /\ user_data' = user_data
                /\ last'.reply = NoReply
          /\ (Resumed("check_out", u) \/ Returned("check_out", u))
             => /\ user_data' = user_data
                /\ last'.reply = NoReply]_vars

\* C8 witness: the check-out of a user who has no record has run through
\* the synchronizer, which found and closed the owner, while another user
\* has a record
C8_Witness ==
    /\ last.op = "check_out"
    /\ last.step = "end"
    /\ last.notify
    /\ last.user \notin DOMAIN user_data
    /\ user_data # EmptyDict

----------------------------------------------------------------------------

\* the reply to a check-in at time t: the on-time window 13:00 <= t < 15:00,
\* the late windows 15:05 < t < 21:00 (counted from 15:00) and
\* 21:01 < t < 21:59 (counted from 21:00), whose ends are exclusive
Classified(t) ==
    LET tod == time_of(t)
    IN  IF time(13, 0, 0) <= tod /\ tod < time(15, 0, 0) THEN WellDone
        ELSE IF time(15, 5, 0) < tod /\ tod < time(21, 0, 0)
        THEN YouAreLate((tod - time(15, 0, 0)) \div 60)
        ELSE IF time(21, 1, 0) < tod /\ tod < time(21, 59, 0)
        THEN YouAreLate9PM((tod - time(21, 0, 0)) \div 60)
        ELSE NoReply

\* C9: a check-in at time of day t records check_in = t in every case; its
\* reply, sent when the handler ends (at once, or after the synchronizer),
\* is the acknowledgment for 13:00 <= t < 15:00, the whole minutes since
\* 15:00 for t inside the late window 15:05-21:00, the whole minutes since
\* 21:00 for t inside 21:01-21:59, and no reply for any other t.
C9_CheckInClassified ==
    [][\A u \in Users :
          /\ Ran("check_in", u)
             => /\ u \in DOMAIN user_data'
                /\ user_data'[u].check_in = now
                /\ last'.reply = IF tasks' = tasks THEN Classified(now)
                                 ELSE NoReply
          /\ Resumed("check_in", u) => last'.reply = NoReply
          /\ Returned("check_in", u)
             => /\ db_lock \in Slots
                /\ tasks[db_lock].op = "check_in"
                /\ tasks[db_lock].user = u
                /\ last'.reply = Classified(tasks[db_lock].now)]_vars

\* C9 witness: the check-in of 15:10:00 is answered, once the synchronizer
\* is done at 15:10:59, with 10 minutes late
C9_Witness ==
    /\ last.op = "check_in"
    /\ last.step = "end"
    /\ last.reply = YouAreLate(10)
    /\ last.user \in DOMAIN user_data
    /\ user_data[last.user].check_in = At(0, 15, 10, 0)
    /\ now = At(0, 15, 10, 59)

----------------------------------------------------------------------------

\* the owner store after the first group of the handle is opened
Opened(owner_data, handle) ==
    LET M == {i \in 1..Len(owner_data) :
                 norm_owner_name(owner_data[i].owner) = norm_owner_name(handle)}
    IN  IF M = {} THEN owner_data
        ELSE LET i == CHOOSE x \in M : \A y \in M : x <= y
                 g == owner_data[i]
             IN  [owner_data EXCEPT
                    ![i] = [k \in DOMAIN g \ {"disabled_until"} |->
                               IF k = "disabled" THEN FALSE ELSE g[k]]]

\* C10 as stated: a check-in for a user who has checked in before leaves
\* the user's record (name, check_in, check_out, counters) as it was.
C10_AsStated ==
    [][\A u \in Users :
          (/\ Ran("check_in", u)
           /\ u \in DOMAIN user_data
           /\ user_data[u].check_in # None)
          => user_data'[u] = user_data[u]]_vars

\* C10, amended: check-in has no precondition; a check-in for a user who
\* has a record leaves the name, check_out and all break counters as they
\* were and sets check_in to the time of this check-in (a first check-in
\* makes the record); when the synchronizer commits, the first owner group
\* of the user's handle is open and without disabled_until and nothing else
\* in the store has changed, so a group that a check-in has opened is
\* equal after the next check-in.
C10_CheckInAgain ==
    [][\A u \in Users :
          /\ Ran("check_in", u)
             => /\ SameButUser(user_data, user_data', u)
                /\ u \in DOMAIN user_data'
                /\ IF u \in DOMAIN user_data
                   THEN user_data'[u] = [user_data[u] EXCEPT !.check_in = now]
                   ELSE \E n \in Names(u) :
                           user_data'[u] =
                              [NewUserRecord(n) EXCEPT !.check_in = now]
                /\ UNCHANGED <<user_breaks, kv_owners>>
          /\ Resumed("check_in", u)
             => /\ kv_owners' = Opened(kv_owners, username(u))
                /\ Opened(kv_owners', username(u)) = kv_owners'
                /\ UNCHANGED <<user_data, user_breaks>>]_vars

\* C10 witness: the user, whose owner group an earlier check-in has opened
\* and who has a wc break of 20 minutes on record, checks in again at 21:30
C10_Witness ==
    /\ last.op = "check_in"
    /\ last.step = "start"
    /\ last.user \in DOMAIN user_data
    /\ now = At(0, 21, 30, 0)
    /\ user_data[last.user].check_in = now
    /\ user_data[last.user].wc_count = 1
    /\ user_data[last.user].wc_late = 5
    /\ ~kv_owners[1].disabled
    /\ "disabled_until" \notin DOMAIN kv_owners[1]
    /\ tasks[2] = Idle

----------------------------------------------------------------------------

\* C11: a user with an active session has checked in and has not checked
\* out (a break is entered only by a checked-in user, and a check-out is not
\* applied to a user who is on a break).
C11_Lifecycle ==
    \A u \in DOMAIN user_breaks :
        /\ u \in DOMAIN user_data
        /\ user_data[u].check_in # None
        /\ user_data[u].check_out = None

----------------------------------------------------------------------------

\* the handlers that call the synchronizer: check_in opens, check_out closes
SyncOps == {"check_in", "check_out"}

\* the ways the handle of user u is written in the owner store: the handle
\* Foo of user 1 is stored as "@FOO " and as "foo"
SpelledAs(u) ==
    IF u = 1 THEN {<<"@", "F", "O", "O", " ">>, <<"f", "o", "o">>} ELSE {}

\* the entries of the store that are written as the handle of user u
EntriesOf(owner_data, u) ==
    {i \in 1..Len(owner_data) : owner_data[i].owner \in SpelledAs(u)}

\* C12: when the synchronizer commits for a handle that an entry of the
\* store matches after normalization (trim, one leading '@' dropped, lower
\* case: the handle Foo matches "@FOO " and "foo"), the first such entry has
\* disabled = closed and, when opened, no disabled_until; its other fields,
\* all other entries and the order of the entries are as before, and the
\* change notification is sent.
C12_OwnerStatusSet ==
    [][\A u \in Users : \A op \in SyncOps :
          (Resumed(op, u) /\ EntriesOf(kv_owners, u) # {})
          => LET closed == op = "check_out"
                 E == EntriesOf(kv_owners, u)
                 i == CHOOSE x \in E : \A y \in E : x <= y
             IN  /\ Len(kv_owners') = Len(kv_owners)
                 /\ kv_owners'[i].disabled = closed
                 /\ DOMAIN kv_owners'[i] =
                       IF closed THEN DOMAIN kv_owners[i]
                       ELSE DOMAIN kv_owners[i] \ {"disabled_until"}
                 /\ \A k \in DOMAIN kv_owners'[i] \ {"disabled"} :
                       kv_owners'[i][k] = kv_owners[i][k]
                 /\ \A j \in 1..Len(kv_owners) \ {i} :
                       kv_owners'[j] = kv_owners[j]
                 /\ last'.notify]_vars

\* C12 witness: the check-in of Foo has opened the entry stored as "@FOO ",
\* which has lost its disabled_until and kept its tag, while the entries
\* before and after it are as they were
C12_Witness ==
    /\ last.op = "check_in"
    /\ last.step = "resume"
    /\ last.notify
    /\ kv_owners = <<Group(<<"B", "a", "r">>, FALSE, "x"),
                     Group(<<"@", "F", "O", "O", " ">>, FALSE, "y"),
                     Group(<<"f", "o", "o">>, TRUE, "z")>>

\* C13: no step adds an entry to the owner store or removes one; a
\* synchronizer call for a handle that no entry matches leaves the store
\* unchanged and sends no notification, and for a user without a handle the
\* synchronizer is not entered at all.
C13_NoEntryAddedOrRemoved ==
    [][/\ Len(kv_owners') = Len(kv_owners)
       /\ \A i \in 1..Len(kv_owners) : kv_owners'[i].owner = kv_owners[i].owner
       /\ \A u \in Users : \A op \in SyncOps :
             /\ (Resumed(op, u) /\ EntriesOf(kv_owners, u) = {})
                => kv_owners' = kv_owners /\ ~last'.notify
             /\ (Ran(op, u) /\ username(u) = NoUsername)
                => /\ kv_owners' = kv_owners
                   /\ ~last'.notify
                   /\ UNCHANGED <<tasks, db_lock, db_waiters>>]_vars

\* C13 witness: the check-in of Foo has gone through the synchronizer on a
\* store that has no entry for Foo: the store is as it was, nothing was
\* notified, and the check-in is on record
C13_Witness ==
    /\ last.op = "check_in"
    /\ last.step = "resume"
    /\ ~last.notify
    /\ kv_owners = <<Group(<<"B", "a", "r">>, FALSE, "x")>>
    /\ last.user \in DOMAIN user_data
    /\ user_data[last.user].check_in # None

----------------------------------------------------------------------------

AllDisabled(owner_data) ==
    \A i \in 1..Len(owner_data) : owner_data[i].disabled

\* C14: after the daily job's close-all every owner entry is disabled; the
\* notification is sent exactly when at least one entry was changed; a call
\* on a store whose entries are all disabled already (such as a second call
\* directly after the first) leaves the store as it is and notifies nothing.
C14_CloseAllIdempotent ==
    [][Resumed("clear_data_job", 0)
       => /\ AllDisabled(kv_owners')
          /\ Len(kv_owners') = Len(kv_owners)
          /\ last'.notify = ~AllDisabled(kv_owners)
          /\ AllDisabled(kv_owners) => kv_owners' = kv_owners
          /\ stop_all_owners(kv_owners')
                = [data |-> kv_owners', changes_made |-> FALSE]]_vars

\* C14 witness: the job of day 2 has run on the store that the job of day 1
\* closed and nobody wrote since: nothing was notified
C14_Witness ==
    /\ last.op = "clear_data_job"
    /\ last.step = "resume"
    /\ ~last.notify
    /\ now = At(2, 3, 0, 0)
    /\ reset_day = 2
    /\ AllDisabled(kv_owners)
    /\ Len(kv_owners) = 3

----------------------------------------------------------------------------

\* C18: when the daily job completes, in whatever state it was fired and
\* whatever ran while it was suspended in the synchronizer, the registry
\* and the break tracker are both empty and every owner entry is disabled
\* (the entries are disabled from the commit of its transaction on); the
\* registry is never emptied in a step that leaves a session
\* in the tracker, nor the tracker by the job in a step that leaves a record
\* in the registry; a back that follows the job finds no session and
\* changes nothing.
C18_ResetClearsBoth ==
    [][/\ Resumed("clear_data_job", 0) => AllDisabled(kv_owners')
       /\ Returned("clear_data_job", 0)
          => /\ user_data' = EmptyDict
             /\ user_breaks' = EmptyDict
             /\ AllDisabled(kv_owners')
       /\ (user_data # EmptyDict /\ user_data' = EmptyDict)
          => Returned("clear_data_job", 0)
       /\ (user_breaks # EmptyDict /\ user_breaks' = EmptyDict
             /\ user_data' # EmptyDict)
          => \E u \in Users : Ran("back", u)
       /\ \A u \in Users :
             (last.op = "clear_data_job" /\ last.step = "end"
                /\ Ran("back", u))
             => /\ UNCHANGED <<user_data, user_breaks>>
                /\ last'.reply = NoReply]_vars

\* C18 witness: the job of 03:00 has ended: it closed the open owner and
\* discarded the sessions of two users who were on a break, together with
\* their records; the back that followed found nothing and changed nothing
C18_Witness ==
    /\ last.op = "back"
    /\ last.step = "start"
    /\ last.reply = NoReply
    /\ last.cleared = 2
    /\ now = At(1, 3, 0, 0)
    /\ reset_day = 1
    /\ \A h \in Slots : tasks[h].op # "clear_data_job"
    /\ db_lock = 0
    /\ user_data = EmptyDict
    /\ user_breaks = EmptyDict
    /\ AllDisabled(kv_owners)

\* C20: every user with an active session has a record in the registry,
\* under any interleaving of the handlers and the daily job.
C20_SessionHasRecord == DOMAIN user_breaks \subseteq DOMAIN user_data

\* C20 witness: two users are on a break, each with a record, while the
\* daily job is suspended in the synchronizer
C20_Witness ==
    /\ Cardinality(DOMAIN user_breaks) = 2
    /\ DOMAIN user_data = DOMAIN user_breaks
    /\ \E h \in Slots : tasks[h].op = "clear_data_job"

----------------------------------------------------------------------------

\* C19: once no check-in, check-out or daily job is in flight, an owner
\* entry of a user's handle is open (disabled = false) only if the registry
\* has a record of that user with check_in set.
C19_OpenOnlyIfCheckedIn ==
    (\A h \in Slots : tasks[h] = Idle)
    => \A u \in Users : \A i \in EntriesOf(kv_owners, u) :
          ~kv_owners[i].disabled
          => u \in DOMAIN user_data /\ user_data[u].check_in # None

----------------------------------------------------------------------------

\* the step just taken is a failure of the synchronizer called by `op` of u
Failed(op, u) == last'.op = op /\ last'.user = u /\ last'.step = "failed"

\* C15 as stated: when a call of the synchronizer fails, the call has left
\* the owner store as it was and has notified nothing, db_lock is released,
\* and the caller runs on: the check_in or check_out written before the
\* call stays in the registry and the check-in is still answered; the
\* daily job still clears the registry and the break tracker.
C15_AsStated ==
    [][/\ \A u \in Users : \A op \in SyncOps :
             Failed(op, u)
             => /\ kv_owners' = kv_owners
                /\ ~last'.notify
                /\ db_lock \in Slots
                /\ db_lock' = 0
                /\ tasks[db_lock].op = op /\ tasks[db_lock].user = u
                /\ tasks'[db_lock] = Idle
                /\ UNCHANGED <<user_data, user_breaks>>
                /\ last'.reply = IF op = "check_in"
                                 THEN Classified(tasks[db_lock].now)
                                 ELSE NoReply
       /\ Failed("clear_data_job", 0)
          => /\ kv_owners' = kv_owners
             /\ ~last'.notify
             /\ db_lock \in Slots
             /\ db_lock' = 0
             /\ tasks'[db_lock] = Idle
             /\ user_data' = EmptyDict
             /\ user_breaks' = EmptyDict
       /\ \A u \in Users :
             /\ Ran("check_in", u) => user_data'[u].check_in = now
             /\ (Ran("check_out", u) /\ AllowedCheckOut(now)
                   /\ u \in DOMAIN user_data)
                => user_data'[u].check_out = now]_vars

\* C15, amended: when a call of the synchronizer fails, db_lock is released
\* and the caller runs on: the check_in or check_out written before the
\* call stays in the registry and the check-in is still answered; the
\* daily job still clears the registry and the break tracker.  A call that
\* fails before its transaction has committed has written nothing to the
\* owner store and notified nothing; a call that fails after the commit
\* (when the connection is given back) leaves the committed write in the
\* store and its notification delivered, and adds nothing to them.
C15_FailureIsolated ==
    [][/\ \A u \in Users \cup {0} : \A op \in SyncOps \cup {"clear_data_job"} :
             Failed(op, u)
             => /\ kv_owners' = kv_owners
                /\ db_lock \in Slots
                /\ db_lock' = 0
                /\ tasks[db_lock].op = op /\ tasks[db_lock].user = u
                /\ tasks'[db_lock] = Idle
                /\ tasks[db_lock].pc = "txn" => ~last'.notify
                /\ last'.notify
                   => /\ tasks[db_lock].pc = "release"
                      /\ IF op = "clear_data_job" THEN AllDisabled(kv_owners)
                         ELSE EntriesOf(kv_owners, u) # {}
                /\ IF op = "clear_data_job"
                   THEN /\ user_data' = EmptyDict
                        /\ user_breaks' = EmptyDict
                        /\ last'.reply = NoReply
                   ELSE /\ UNCHANGED <<user_data, user_breaks>>
                        /\ last'.reply = IF op = "check_in"
                                         THEN Classified(tasks[db_lock].now)
                                         ELSE NoReply
       /\ \A u \in Users : \A op \in SyncOps :
             Resumed(op, u)
             => (tasks'[db_lock].pc = "release" /\ db_lock' = db_lock)
       /\ \A u \in Users :
             /\ Ran("check_in", u) => user_data'[u].check_in = now
             /\ (Ran("check_out", u) /\ AllowedCheckOut(now)
                   /\ u \in DOMAIN user_data)
                => user_data'[u].check_out = now]_vars

\* C15 witness: the check-out of 21:30 is on record and db_lock is free
\* after the synchronizer failed when it gave back its connection: the
\* entry of the user, which the check-in had opened, is closed by the
\* transaction that had committed, and the notification was delivered
C15_Witness ==
    /\ last.op = "check_out"
    /\ last.step = "failed"
    /\ last.notify
    /\ reset_day = 0
    /\ last.user \in DOMAIN user_data
    /\ user_data[last.user].check_out = At(0, 21, 30, 0)
    /\ user_data[last.user].check_in = At(0, 17, 5, 0)
    /\ kv_owners = <<Group(<<"B", "a", "r">>, FALSE, "x"),
                     Group(<<"@", "F", "O", "O", " ">>, TRUE, "y"),
                     Group(<<"f", "o", "o">>, TRUE, "z")>>
    /\ db_lock = 0

----------------------------------------------------------------------------

\* C16: every handler or job that calls the synchronizer runs to its end,
\* also when the other bot keeps the lock on the owners row for ever: the
\* wait for the row lock ends after a bounded time, the call returns as a
\* handled failure and db_lock is free again for the calls waiting on it.
C16_EveryCallReturns ==
    \A h \in Slots : (tasks[h] # Idle) ~> (tasks[h] = Idle)

----------------------------------------------------------------------------

\* the synchronizer transactions of this process that are open
OpenTransactions == {h \in Slots : tasks[h].pc \in {"txn", "row"}}

\* the step just taken is the commit of the other bot's transaction
ExternalCommitted == row.ext_pc = "txn" /\ row'.ext_pc = "idle"

\* C17: at most one synchronizer transaction of this process is open at a
\* time and it holds db_lock; a transaction of this process and one of the
\* other bot never both stand between their read of the owners row and
\* their commit; every commit replaces the very value its transaction has
\* read, so the entry the other bot writes is as it was after a commit of
\* check_in or check_out, and the entries this process writes are as they
\* were after a commit of the other bot.
C17_NoLostUpdate ==
    [][/\ Cardinality(OpenTransactions') <= 1
       /\ OpenTransactions' \subseteq {db_lock'}
       /\ ~(row'.ext_pc = "txn" /\ \E h \in Slots : tasks'[h].pc = "row")
       /\ \A op \in SyncOps \cup {"clear_data_job"} :
             \A u \in Users \cup {0} :
                Resumed(op, u)
                => /\ db_lock \in Slots
                   /\ row.lock = db_lock
                   /\ row.ours = kv_owners
                   /\ op \in SyncOps => kv_owners'[1] = kv_owners[1]
                   /\ op = "clear_data_job" => AllDisabled(kv_owners')
       /\ ExternalCommitted
          => /\ row.lock = External
             /\ row.theirs = kv_owners
             /\ kv_owners'[1].disabled = ~kv_owners[1].disabled
             /\ \A j \in 2..Len(kv_owners) : kv_owners'[j] = kv_owners[j]
             /\ Len(kv_owners') = Len(kv_owners)]_vars

\* C17 witness: on day 0 the other bot has closed the first entry and the
\* check-in of Foo has opened the second one, both changes are in the row,
\* and the other bot is in its next transaction, whose read holds both
C17_Witness ==
    /\ reset_day = 0
    /\ now = At(0, 21, 30, 0)
    /\ row.ext_pc = "txn"
    /\ row.lock = External
    /\ row.theirs = kv_owners
    /\ kv_owners = <<Group(<<"B", "a", "r">>, TRUE, "x"),
                     Group(<<"@", "F", "O", "O", " ">>, FALSE, "y"),
                     Group(<<"f", "o", "o">>, TRUE, "z")>>

----------------------------------------------------------------------------

\* the store with the first entry of the handle closed, all else as it is
Closed(owner_data, handle) ==
    LET M == {i \in 1..Len(owner_data) :
                 norm_owner_name(owner_data[i].owner) = norm_owner_name(handle)}
    IN  IF M = {} THEN owner_data
        ELSE LET i == CHOOSE x \in M : \A y \in M : x <= y
             IN  [owner_data EXCEPT ![i].disabled = TRUE]

\* a call of the synchronizer for the check-out of user u is under way
CheckOutCalls(u) ==
    \E h \in Slots : tasks[h].op = "check_out" /\ tasks[h].user = u

\* C21: a check-out inside an allowed window from a user with a handle
\* enters the synchronizer whether the user is on record or not, and makes
\* no record for a user who has none; when the synchronizer commits, the
\* first owner entry of the handle is disabled, the rest of the store is as
\* it was, and the registry still has exactly the records it had.
C21_CheckOutClosesOwner ==
    [][\A u \in Users :
          /\ (Ran("check_out", u) /\ AllowedCheckOut(now)
                /\ username(u) # NoUsername)
             => /\ ~CheckOutCalls(u) => CheckOutCalls(u)'
                /\ tasks' # tasks
                /\ DOMAIN user_data' = DOMAIN user_data
                /\ kv_owners' = kv_owners
          /\ Resumed("check_out", u)
             => /\ username(u) # NoUsername
                /\ kv_owners' = Closed(kv_owners, username(u))
                /\ last'.notify = (EntriesOf(kv_owners, u) # {})
                /\ user_data' = user_data
          /\ Returned("check_out", u)
             => /\ UNCHANGED <<user_data, kv_owners>>
                /\ last'.reply = NoReply]_vars

\* C21 witness: Foo, who has never checked in (nobody has a record and no
\* daily reset has run), has checked out at 21:00; the entry "@FOO ", which
\* was open, is disabled now, and the registry is still empty
C21_Witness ==
    /\ last.op = "check_out"
    /\ last.step = "end"
    /\ last.user = 1
    /\ last.notify
    /\ reset_day = 0
    /\ now = At(0, 21, 0, 0)
    /\ user_data = EmptyDict
    /\ kv_owners = <<Group(<<"B", "a", "r">>, FALSE, "x"),
                     Group(<<"@", "F", "O", "O", " ">>, TRUE, "y"),
                     Group(<<"f", "o", "o">>, FALSE, "z")>>

====
